---- MODULE Spec2Model ----
(***************************************************************************)
(* bed - a line editor (src/src/main.rs).  The model covers parse_command  *)
(* (classification of one input line with its three regular expressions    *)
(* and the address defaulting) and the REPL loop of main (one action per   *)
(* arm of the command dispatch).  Text is modelled as sequences of         *)
(* one-character strings; the rope is its raw text with line_len and line  *)
(* derived from it.  The syntax highlighter is outside the model: the      *)
(* file's extension is taken to be one syntect knows, and a printed line   *)
(* is recorded as the text handed to the highlighter.                      *)
(***************************************************************************)
EXTENDS Integers, Sequences, FiniteSets, TLC

VARIABLES content, current_line, status, input, command, new_content,
          out, eof, file, moved

vars == <<content, current_line, status, input, command, new_content,
          out, eof, file, moved>>

(***************************************************************************)
(* Bounds of the model.                                                    *)
(***************************************************************************)
MaxLines == 3
MaxAddr == 3
MaxLen == 4
WideLines == 10

(***************************************************************************)
(* Characters and strings.                                                 *)
(***************************************************************************)
NL == "\n"

DigitChars == <<"0", "1", "2", "3", "4", "5", "6", "7", "8", "9">>

IsDigit(c) == \E i \in 1..10 : DigitChars[i] = c

DigitVal(c) == (CHOOSE i \in 1..10 : DigitChars[i] = c) - 1

IsWhite(c) == c \in {" ", NL}

RECURSIVE TrimStart(_)
TrimStart(s) ==
  IF s # <<>> /\ IsWhite(Head(s)) THEN TrimStart(Tail(s)) ELSE s

RECURSIVE TrimEnd(_)
TrimEnd(s) ==
  IF s # <<>> /\ IsWhite(s[Len(s)]) THEN TrimEnd(SubSeq(s, 1, Len(s) - 1)) ELSE s

\* str::trim: both ends stripped of whitespace
trim(s) == TrimEnd(TrimStart(s))

contains(s, c) == \E i \in 1..Len(s) : s[i] = c

ends_with(s, c) == s # <<>> /\ s[Len(s)] = c

(***************************************************************************)
(* str::parse::<usize>() on a string of decimal digits: the value, or an   *)
(* error when it exceeds usize::MAX = 18446744073709551615.                *)
(***************************************************************************)
UsizeMaxDigits ==
  <<"1", "8", "4", "4", "6", "7", "4", "4", "0", "7",
    "3", "7", "0", "9", "5", "5", "1", "6", "1", "5">>

RECURSIVE StripZeros(_)
StripZeros(d) ==
  IF Len(d) > 1 /\ Head(d) = "0" THEN StripZeros(Tail(d)) ELSE d

RECURSIVE DigitsGreater(_, _)
DigitsGreater(a, b) ==
  IF a = <<>> \/ b = <<>> THEN FALSE
  ELSE IF Head(a) # Head(b) THEN DigitVal(Head(a)) > DigitVal(Head(b))
  ELSE DigitsGreater(Tail(a), Tail(b))

Overflows(d) ==
  LET z == StripZeros(d)
  IN  \/ Len(z) > Len(UsizeMaxDigits)
      \/ Len(z) = Len(UsizeMaxDigits) /\ DigitsGreater(z, UsizeMaxDigits)

RECURSIVE DecimalValue(_)
DecimalValue(d) ==
  IF d = <<>> THEN 0
  ELSE 10 * DecimalValue(SubSeq(d, 1, Len(d) - 1)) + DigitVal(d[Len(d)])

\* usize::to_string
RECURSIVE to_string(_)
to_string(n) ==
  IF n < 10 THEN <<DigitChars[n + 1]>>
  ELSE to_string(n \div 10) \o <<DigitChars[(n % 10) + 1]>>

(***************************************************************************)
(* The rope: raw text; a final line break does not open a new line.        *)
(***************************************************************************)
RECURSIVE SplitLines(_, _)
SplitLines(t, cur) ==
  IF t = <<>> THEN (IF cur = <<>> THEN <<>> ELSE <<cur>>)
  ELSE IF Head(t) = NL THEN <<cur>> \o SplitLines(Tail(t), <<>>)
  ELSE SplitLines(Tail(t), Append(cur, Head(t)))

Lines(t) == SplitLines(t, <<>>)

\* Rope::line_len: the line breaks, and a last line without one
line_len(t) ==
  Cardinality({i \in 1..Len(t) : t[i] = NL})
    + (IF t # <<>> /\ t[Len(t)] # NL THEN 1 ELSE 0)

\* Rope::line(i), 0-based, without the line break; panics out of bounds
line(t, i) == Lines(t)[i + 1]

RECURSIVE JoinLines(_)
JoinLines(ls) ==
  IF ls = <<>> THEN <<>> ELSE Head(ls) \o <<NL>> \o JoinLines(Tail(ls))

(***************************************************************************)
(* The regular expressions of parse_command.                               *)
(***************************************************************************)
At(s, p) == IF p >= 1 /\ p <= Len(s) THEN s[p] ELSE ""

RECURSIVE DigitRun(_, _)
DigitRun(s, p) ==
  IF p <= Len(s) /\ IsDigit(s[p]) THEN 1 + DigitRun(s, p + 1) ELSE 0

\* ^(q|quit)$
quit_re(s) == s = <<"q">> \/ s = <<"q", "u", "i", "t">>

\* ^(\d+)$
move_re(s) == s # <<>> /\ \A i \in 1..Len(s) : IsDigit(s[i])

\* ^c\s*$
change_re(s) ==
  /\ s # <<>>
  /\ s[1] = "c"
  /\ \A i \in 2..Len(s) : IsWhite(s[i])

\* slip: the command letter made optional, ^(\d+)?,?(\s)?(\d+)?(\s)?[pn]?$
print_re_matches_optional_letter(s) ==
  { m \in { <<g1, c, w1, Len(s) - x - g1 - c - w1 - w2, w2>> :
              g1 \in 0..DigitRun(s, 1), c \in 0..1, w1 \in 0..1, w2 \in 0..1,
              x \in {k \in 0..1 : k = 0 \/ At(s, Len(s)) \in {"p", "n"}} } :
      /\ m[4] >= 0
      /\ m[2] = 1 => At(s, m[1] + 1) = ","
      /\ m[3] = 1 => IsWhite(At(s, m[1] + m[2] + 1))
      /\ m[4] <= DigitRun(s, m[1] + m[2] + m[3] + 1)
      /\ m[5] = 1 => IsWhite(At(s, m[1] + m[2] + m[3] + m[4] + 1)) }

\* ^(\d+)?,?(\s)?(\d+)?(\s)?[pn]$ : every way the pattern can match s, as the
\* lengths <<g1, comma, w1, g3, w2>> taken by its five optional pieces
print_re_matches(s) ==
  { m \in { <<g1, c, w1, Len(s) - 1 - g1 - c - w1 - w2, w2>> :
              g1 \in 0..DigitRun(s, 1), c \in 0..1, w1 \in 0..1, w2 \in 0..1 } :
      /\ m[4] >= 0
      /\ m[2] = 1 => At(s, m[1] + 1) = ","
      /\ m[3] = 1 => IsWhite(At(s, m[1] + m[2] + 1))
      /\ m[4] <= DigitRun(s, m[1] + m[2] + m[3] + 1)
      /\ m[5] = 1 => IsWhite(At(s, m[1] + m[2] + m[3] + m[4] + 1))
      /\ At(s, Len(s)) \in {"p", "n"} }

print_re(s) == print_re_matches(s) # {}

\* greedy, leftmost-first: an earlier piece takes as much as it can
Preferred(a, b) ==
  \E k \in 1..5 : a[k] > b[k] /\ \A j \in 1..(k - 1) : a[j] = b[j]

None == <<>>
Some(x) == <<x>>
unwrap_or(o, d) == IF o = None THEN d ELSE o[1]

\* Regex::captures: groups 1 and 3 of the preferred match
print_re_captures(s) ==
  LET m == CHOOSE a \in print_re_matches(s) :
             \A b \in print_re_matches(s) : b = a \/ Preferred(a, b)
  IN  [g1 |-> IF m[1] = 0 THEN None ELSE Some(SubSeq(s, 1, m[1])),
       g3 |-> IF m[4] = 0 THEN None
              ELSE Some(SubSeq(s, m[1] + m[2] + m[3] + 1,
                                  m[1] + m[2] + m[3] + m[4]))]

(***************************************************************************)
(* parse_command.  A failed unwrap of str::parse is a panic.               *)
(***************************************************************************)
Panic == [type |-> "Panic"]

Range(s, e) == [start |-> s, end |-> e]

\* slip: the range form defaults its end to the current line
resolve_range_end_current(s, start, end, cur, max_line) ==
  IF contains(s, ",")
  THEN Range(unwrap_or(start, 1), unwrap_or(end, cur))
  ELSE Range(unwrap_or(start, cur), unwrap_or(start, cur))

\* slip: the single-address form takes its end from the second number
resolve_range_end_second(s, start, end, cur, max_line) ==
  IF contains(s, ",")
  THEN Range(unwrap_or(start, 1), unwrap_or(end, max_line))
  ELSE Range(unwrap_or(start, cur), unwrap_or(end, unwrap_or(start, cur)))

\* the match on input.contains(",") that builds the Range
resolve_range(s, start, end, cur, max_line) ==
  IF contains(s, ",")
  THEN Range(unwrap_or(start, 1), unwrap_or(end, max_line))
  ELSE Range(unwrap_or(start, cur), unwrap_or(start, cur))

parse_command(inp, cur, max_line) ==
  LET s == trim(inp)
  IN  IF quit_re(s) THEN [type |-> "Quit"]
      ELSE IF print_re(s) THEN
        LET captures == print_re_captures(s)
        IN  IF \/ captures.g1 # None /\ Overflows(captures.g1[1])
               \/ captures.g3 # None /\ Overflows(captures.g3[1])
            THEN Panic
            ELSE
              LET start == IF captures.g1 = None THEN None
                           ELSE Some(DecimalValue(captures.g1[1]))
                  end == IF captures.g3 = None THEN None
                         ELSE Some(DecimalValue(captures.g3[1]))
                  range == resolve_range(s, start, end, cur, max_line)
              IN  IF ends_with(s, "p") THEN [type |-> "Print", range |-> range]
                  ELSE IF ends_with(s, "n") THEN [type |-> "NPrint", range |-> range]
                  ELSE [type |-> "None"]
      ELSE IF change_re(s) THEN [type |-> "Change"]
      ELSE IF move_re(s) THEN
        IF Overflows(s) THEN Panic ELSE [type |-> "Move", line |-> DecimalValue(s)]
      ELSE [type |-> "None"]

(***************************************************************************)
(* Standard input and the file given on the command line.                  *)
(***************************************************************************)
FileLine(k) == <<"l">> \o to_string(k)

FileLines(k) == [i \in 1..k |-> FileLine(i)]

\* the file read at startup: k lines, the last one with or without a line
\* break, or a file whose line count has two digits
InitFiles ==
  {JoinLines(FileLines(k)) : k \in 0..MaxLines}
    \cup {SubSeq(JoinLines(FileLines(k)), 1, Len(JoinLines(FileLines(k))) - 1) :
            k \in 1..MaxLines}
    \cup {JoinLines(FileLines(WideLines))}

Addrs == {to_string(n) : n \in 0..MaxAddr}

OptAddr == Addrs \cup {<<>>}

BigLiteral == [i \in 1..20 |-> "9"]

\* the lines a user types at the prompt (without the line break)
TypedLines ==
  {a \o <<",">> \o b \o <<x>> : a \in OptAddr, b \in OptAddr, x \in {"p", "n"}}
    \cup {a \o <<x>> : a \in OptAddr, x \in {"p", "n"}}
    \cup Addrs
    \cup {<<"q">>, <<"q", "u", "i", "t">>, <<" ", "q", " ">>, <<"c">>, <<"c", " ">>,
          <<"w">>, <<"z", "z", "z">>, <<>>, <<".">>, <<"x">>, <<"1", " ", "2", "p">>,
          <<"0", "2">>, <<"p", "p">>, <<"1", ",", ",", "p">>,
          BigLiteral, BigLiteral \o <<"p">>}

\* the lines a user types as replacement text
TextLines == {<<"x">>, <<".">>, <<>>, <<"q">>}

\* Stdin::read_line: a line with its line break, or nothing at end of input
read_line(lines, at_eof) ==
  IF at_eof THEN {<<>>} ELSE {l \o <<NL>> : l \in lines} \cup {<<>>}

(***************************************************************************)
(* The loops of the Print and NPrint arms over (range.start - 1)..range.end *)
(***************************************************************************)
RECURSIVE Pad(_, _)
Pad(s, width) == IF Len(s) >= width THEN s ELSE Pad(<<" ">> \o s, width)

\* slip: the gutter shows the 0-based index of the line
Gutter_zero_based(i, width) == Pad(to_string(i), width) \o <<" ", "|", " ">>

\* "{:width$} | " of line + 1 (the separator glyph is written | here)
Gutter(i, width) == Pad(to_string(i + 1), width) \o <<" ", "|", " ">>

\* slip: the first line is fetched before the range is found empty
RECURSIVE ForLines_fetch_first(_, _, _, _, _)
ForLines_fetch_first(t, i, end, width, acc) ==
  IF i >= line_len(t) THEN [out |-> acc, panic |-> TRUE]
  ELSE IF i >= end THEN [out |-> acc, panic |-> FALSE]
  ELSE ForLines_fetch_first(t, i + 1, end, width,
                Append(acc, [gutter |-> IF width = 0 THEN <<>> ELSE Gutter(i, width),
                             text |-> line(t, i)]))

RECURSIVE ForLines(_, _, _, _, _)
ForLines(t, i, end, width, acc) ==
  IF i >= end THEN [out |-> acc, panic |-> FALSE]
  ELSE IF i >= line_len(t) THEN [out |-> acc, panic |-> TRUE]
  ELSE ForLines(t, i + 1, end, width,
                Append(acc, [gutter |-> IF width = 0 THEN <<>> ELSE Gutter(i, width),
                             text |-> line(t, i)]))

\* slip: the loop starts at range.start, not at range.start - 1
RunRange_one_based(t, range, width, overflow_checks) ==
  ForLines(t, range.start, range.end, width, <<>>)

\* range.start - 1 on usize: with start = 0 the subtraction panics when
\* overflow checks are on and wraps to usize::MAX (an empty range) when off
RunRange(t, range, width, overflow_checks) ==
  IF range.start = 0
  THEN [out |-> <<>>, panic |-> overflow_checks]
  ELSE ForLines(t, range.start - 1, range.end, width, <<>>)

(***************************************************************************)
(* The REPL loop of main.                                                  *)
(***************************************************************************)
\* slip: the cursor starts on the first line
Init_first_line ==
  /\ content \in InitFiles
  /\ file = content
  /\ current_line = (IF content = <<>> THEN 0 ELSE 1)
  /\ status = "Running"
  /\ input = <<>>
  /\ command = [type |-> "Start"]
  /\ new_content = <<>>
  /\ out = <<>>
  /\ eof = FALSE
  /\ moved = FALSE

Init ==
  /\ content \in InitFiles
  /\ file = content
  /\ current_line = line_len(content)
  /\ status = "Running"
  /\ input = <<>>
  /\ command = [type |-> "Start"]
  /\ new_content = <<>>
  /\ out = <<>>
  /\ eof = FALSE
  /\ moved = FALSE

MaxOf(a, b) == IF a > b THEN a ELSE b

\* parse_command over every line the model types, every current line and
\* every line count the model reaches, evaluated once
Parsed ==
  [l \in read_line(TypedLines, FALSE) |->
    [cur \in 0..MaxOf(MaxAddr, MaxLines) \cup {WideLines} |->
      [max_line \in 0..MaxLines \cup {WideLines} |->
        parse_command(l, cur, max_line)]]]

\* the prompt, read_line and parse_command of one iteration
Iteration(l, type) ==
  /\ status = "Running"
  /\ Parsed[l][current_line][line_len(content)].type = type
  /\ input' = l
  /\ command' = Parsed[l][current_line][line_len(content)]

\* slip: the None arm leaves the loop
DoNone_break ==
  \E l \in read_line(TypedLines, eof) :
    /\ Iteration(l, "None")
    /\ eof' = (eof \/ l = <<>>)
    /\ out' = <<>>
    /\ status' = "Terminated"
    /\ UNCHANGED <<content, current_line, new_content, file, moved>>

DoNone ==
  \E l \in read_line(TypedLines, eof) :
    /\ Iteration(l, "None")
    /\ eof' = (eof \/ l = <<>>)
    /\ out' = <<>>
    /\ UNCHANGED <<content, current_line, status, new_content, file, moved>>

DoQuit ==
  \E l \in read_line(TypedLines, eof) :
    /\ Iteration(l, "Quit")
    /\ status' = "Terminated"
    /\ out' = <<>>
    /\ UNCHANGED <<content, current_line, new_content, eof, file, moved>>

\* slip: Change pulls the current line back into the new buffer
DoChange_clamps ==
  \E l \in read_line(TypedLines, eof) :
    /\ Iteration(l, "Change")
    /\ \E text \in read_line(TextLines, eof) :
         /\ new_content' = text
         /\ content' = text
         /\ eof' = (eof \/ text = <<>>)
         /\ current_line' = IF current_line > line_len(text)
                            THEN line_len(text) ELSE current_line
    /\ out' = <<>>
    /\ UNCHANGED <<status, file, moved>>

DoChange ==
  \E l \in read_line(TypedLines, eof) :
    /\ Iteration(l, "Change")
    /\ \E text \in read_line(TextLines, eof) :
         /\ new_content' = text
         /\ content' = text
         /\ eof' = (eof \/ text = <<>>)
    /\ out' = <<>>
    /\ UNCHANGED <<current_line, status, file, moved>>

\* the builds that differ on this range: with or without overflow checks
\* when range.start - 1 underflows, one build otherwise
Builds(range) == IF range.start = 0 THEN BOOLEAN ELSE {TRUE}

DoPrint ==
  \E l \in read_line(TypedLines, eof) :
    /\ Iteration(l, "Print")
    /\ \E overflow_checks \in Builds(command'.range) :
         LET r == RunRange(content, command'.range, 0, overflow_checks)
         IN  /\ out' = r.out
             /\ status' = IF r.panic THEN "Aborted" ELSE "Running"
    /\ UNCHANGED <<content, current_line, new_content, eof, file, moved>>

DoNPrint ==
  \E l \in read_line(TypedLines, eof) :
    /\ Iteration(l, "NPrint")
    /\ \E overflow_checks \in Builds(command'.range) :
         LET width == Len(to_string(line_len(content)))
             r == RunRange(content, command'.range, width, overflow_checks)
         IN  /\ out' = r.out
             /\ status' = IF r.panic THEN "Aborted" ELSE "Running"
    /\ UNCHANGED <<content, current_line, new_content, eof, file, moved>>

\* slip: the target of a Move is clamped to the line count
DoMove_clamped ==
  \E l \in read_line(TypedLines, eof) :
    /\ Iteration(l, "Move")
    /\ current_line' = IF command'.line > line_len(content)
                       THEN line_len(content) ELSE command'.line
    /\ moved' = TRUE
    /\ out' = <<>>
    /\ UNCHANGED <<content, status, new_content, eof, file>>

DoMove ==
  \E l \in read_line(TypedLines, eof) :
    /\ Iteration(l, "Move")
    /\ current_line' = command'.line
    /\ moved' = TRUE
    /\ out' = <<>>
    /\ UNCHANGED <<content, status, new_content, eof, file>>

\* an unwrap of a failed str::parse inside parse_command
ParsePanic ==
  \E l \in read_line(TypedLines, eof) :
    /\ Iteration(l, "Panic")
    /\ status' = "Aborted"
    /\ out' = <<>>
    /\ UNCHANGED <<content, current_line, new_content, eof, file, moved>>

Next ==
  \/ DoNone
  \/ DoQuit
  \/ DoChange
  \/ DoPrint
  \/ DoNPrint
  \/ DoMove
  \/ ParsePanic

Spec == Init /\ [][Next]_vars

(***************************************************************************)
(* parse_command alone, on every short string over the characters of the   *)
(* command language.                                                       *)
(***************************************************************************)
ParseAlphabet == {"0", "2", ",", " ", "p", "n", "c", "q"}

ParseStrings ==
  UNION {[1..k -> ParseAlphabet] : k \in 0..MaxLen}
    \cup {<<"q", "u", "i", "t">>, <<"w">>, <<"z", "z", "z">>, <<"7", ",", "3", "p">>,
          BigLiteral, BigLiteral \o <<"p">>, <<",">> \o BigLiteral \o <<"n">>}

InitParse ==
  /\ input \in {s \o <<NL>> : s \in ParseStrings}
  /\ content \in {JoinLines(FileLines(k)) : k \in {0, MaxLines}}
  /\ file = content
  /\ current_line \in {1, MaxAddr}
  /\ status = "Running"
  /\ command = [type |-> "Start"]
  /\ new_content = <<>>
  /\ out = <<>>
  /\ eof = FALSE
  /\ moved = FALSE

ParseStep ==
  /\ command.type = "Start"
  /\ command' = parse_command(input, current_line, line_len(content))
  /\ UNCHANGED <<content, current_line, status, input, new_content, out, eof,
                 file, moved>>

NextParse == ParseStep

SpecParse == InitParse /\ [][NextParse]_vars

(***************************************************************************)
(* The addressing grammar, stated on the shape of the trimmed input:       *)
(* [number][,][space][number][space] followed by p or n.                   *)
(***************************************************************************)
AllDigits(d) == \A i \in 1..Len(d) : IsDigit(d[i])

Spaces(k) == [i \in 1..k |-> " "]

\* the digits at the front of t
LeadingNumber(t) ==
  SubSeq(t, 1, CHOOSE i \in 0..Len(t) :
                 /\ AllDigits(SubSeq(t, 1, i))
                 /\ (i = Len(t) \/ ~IsDigit(t[i + 1])))

\* the text between the comma and the command letter
AfterComma(t) ==
  SubSeq(t, (CHOOSE k \in 1..Len(t) : t[k] = ",") + 1, Len(t) - 1)

TrailingNumber(t) == SelectSeq(AfterComma(t), IsDigit)

IsRangeForm(t) ==
  /\ Len(t) >= 2
  /\ t[Len(t)] \in {"p", "n"}
  /\ \E k \in 1..(Len(t) - 1) :
       /\ t[k] = ","
       /\ AllDigits(SubSeq(t, 1, k - 1))
       /\ \E w1 \in 0..1, w2 \in 0..1 :
            LET d == Len(t) - 1 - k - w1 - w2
            IN  /\ d >= 0
                /\ SubSeq(t, k + 1, k + w1) = Spaces(w1)
                /\ AllDigits(SubSeq(t, k + w1 + 1, k + w1 + d))
                /\ SubSeq(t, k + w1 + d + 1, k + w1 + d + w2) = Spaces(w2)

IsSingleForm(t) ==
  /\ Len(t) >= 1
  /\ t[Len(t)] \in {"p", "n"}
  /\ ~contains(t, ",")
  /\ \E d1 \in 0..(Len(t) - 1), w1 \in 0..1, w2 \in 0..1 :
       LET d3 == Len(t) - 1 - d1 - w1 - w2
       IN  /\ d3 >= 0
           /\ AllDigits(SubSeq(t, 1, d1))
           /\ SubSeq(t, d1 + 1, d1 + w1) = Spaces(w1)
           /\ AllDigits(SubSeq(t, d1 + w1 + 1, d1 + w1 + d3))
           /\ SubSeq(t, d1 + w1 + d3 + 1, d1 + w1 + d3 + w2) = Spaces(w2)

Representable(d) == Len(StripZeros(d)) <= 9

\* C5: a print-family input with a comma resolves to start = the first
\* number if present, else 1, and end = the second number if present, else
\* the line count of the buffer, whatever the current line is.
C5_RangeForm ==
  (/\ command.type # "Start"
   /\ IsRangeForm(trim(input))
   /\ Representable(LeadingNumber(trim(input)))
   /\ Representable(TrailingNumber(trim(input))))
  => /\ command.type = (IF trim(input)[Len(trim(input))] = "p" THEN "Print" ELSE "NPrint")
     /\ command.range.start =
          (IF LeadingNumber(trim(input)) = <<>> THEN 1
           ELSE DecimalValue(LeadingNumber(trim(input))))
     /\ command.range.end =
          (IF TrailingNumber(trim(input)) = <<>> THEN line_len(content)
           ELSE DecimalValue(TrailingNumber(trim(input))))

\* "2,p" with the current line at 1 resolved to line 2 up to the last line
C5_Witness ==
  /\ trim(input) = <<"2", ",", "p">>
  /\ command.type = "Print"
  /\ line_len(content) = MaxLines
  /\ current_line = 1
  /\ command.range = Range(2, MaxLines)

\* C6: a print-family input without a comma resolves to start = its leading
\* number if present, else the current line, and end = start, whatever the
\* line count of the buffer is.
C6_SingleForm ==
  (/\ command.type # "Start"
   /\ IsSingleForm(trim(input))
   /\ Representable(LeadingNumber(trim(input))))
  => /\ command.type = (IF trim(input)[Len(trim(input))] = "p" THEN "Print" ELSE "NPrint")
     /\ command.range.start =
          (IF LeadingNumber(trim(input)) = <<>> THEN current_line
           ELSE DecimalValue(LeadingNumber(trim(input))))
     /\ command.range.end = command.range.start

\* a bare "p" resolved to the current line, which is not the last line
C6_Witness ==
  /\ trim(input) = <<"p">>
  /\ command.type = "Print"
  /\ current_line = 1
  /\ line_len(content) = MaxLines
  /\ command.range = Range(1, 1)

(***************************************************************************)
(* Properties of the REPL loop.                                            *)
(***************************************************************************)
DotLine == <<".", NL>>

\* the replacement lines change mode has collected from what the arm read
Collected(text) ==
  IF text = <<>> \/ text = DotLine THEN <<>> ELSE Lines(text)

\* C1: Change replaces exactly the current line: with 1 <= current_line <= n
\* the buffer afterwards is the lines before the current one, the collected
\* replacement lines, and the lines after the current one.
C1_ChangeReplacesCurrentLine ==
  [][(/\ status = "Running"
      /\ command'.type = "Change"
      /\ 1 <= current_line
      /\ current_line <= line_len(content))
     => Lines(content') =
          SubSeq(Lines(content), 1, current_line - 1)
            \o Collected(new_content')
            \o SubSeq(Lines(content), current_line + 1, line_len(content))]_vars

\* C2: change mode consumes the input lines up to and including the first
\* line equal to "."; when the loop is back at the prompt after a Change,
\* the last line change mode consumed is that terminator.
C2_ChangeConsumesUntilDot ==
  (command.type = "Change" /\ ~eof) => new_content = DotLine

\* C3: as long as no Move has been executed, 1 <= current_line <= line count
\* whenever the buffer has lines.
C3_CursorInvariant ==
  (~moved /\ line_len(content) > 0)
    => (1 <= current_line /\ current_line <= line_len(content))

\* C4: an input line terminates the loop exactly when it trims to q or quit;
\* every other line leaves the loop running.
C4_OnlyQuitTerminates ==
  [][status = "Running"
     => status' = (IF trim(input') \in {<<"q">>, <<"q", "u", "i", "t">>}
                   THEN "Terminated" ELSE "Running")]_vars

\* C7: for all start <= end <= line count, Print emits exactly
\* end-start+1 lines, the k-th being line start+k-1, without a gutter, and
\* leaves the buffer unchanged.
C7_PrintAnyStart ==
  [][(/\ status = "Running"
      /\ command'.type = "Print"
      /\ command'.range.start <= command'.range.end
      /\ command'.range.end <= line_len(content))
     => /\ Len(out') = command'.range.end - command'.range.start + 1
        /\ \A k \in 1..Len(out') :
             /\ out'[k].text = Lines(content)[command'.range.start + k - 1]
             /\ out'[k].gutter = <<>>
        /\ content' = content]_vars

\* C7 where the range is 1-based, 1 <= start <= end <= line count (the part
\* of the claim that C18's underflow leaves intact): Print emits exactly
\* end-start+1 lines, the k-th being line start+k-1, without a gutter, and
\* leaves the buffer unchanged.
C7_Print ==
  [][(/\ status = "Running"
      /\ command'.type = "Print"
      /\ 1 <= command'.range.start
      /\ command'.range.start <= command'.range.end
      /\ command'.range.end <= line_len(content))
     => /\ Len(out') = command'.range.end - command'.range.start + 1
        /\ \A k \in 1..Len(out') :
             /\ out'[k].text = Lines(content)[command'.range.start + k - 1]
             /\ out'[k].gutter = <<>>
        /\ content' = content]_vars

\* lines 2 and 3 of a buffer printed in order
C7_Witness ==
  /\ command.type = "Print"
  /\ command.range = Range(2, 3)
  /\ status = "Running"
  /\ line_len(content) >= 3
  /\ out = <<[gutter |-> <<>>, text |-> line(content, 1)],
             [gutter |-> <<>>, text |-> line(content, 2)]>>

\* C8: a Print or NPrint whose range reaches past the last line of the buffer
\* (from its addresses, or from a current line moved out of the buffer) does
\* not abort: the loop keeps running with buffer and current line intact.
C8_OutOfBoundsRecoverable ==
  [][(/\ status = "Running"
      /\ command'.type \in {"Print", "NPrint"}
      /\ command'.range.end > line_len(content))
     => /\ status' = "Running"
        /\ content' = content
        /\ current_line' = current_line]_vars

\* C9: the input w writes the buffer to the file, so that the file read
\* back is the buffer's text, and leaves buffer and current line unchanged.
C9_WriteRoundTrip ==
  [][(status = "Running" /\ trim(input') = <<"w">>)
     => /\ file' = content'
        /\ content' = content
        /\ current_line' = current_line]_vars

\* C10: an input that is a bare unsigned integer k is the command Move{k};
\* it sets current_line to k whatever the current line and the line count
\* are, and leaves the buffer unchanged.
C10_Move ==
  [][(/\ status = "Running"
      /\ trim(input') # <<>>
      /\ AllDigits(trim(input'))
      /\ Representable(trim(input')))
     => /\ command' = [type |-> "Move", line |-> DecimalValue(trim(input'))]
        /\ current_line' = DecimalValue(trim(input'))
        /\ content' = content
        /\ status' = "Running"]_vars

\* the current line moved past the last line of the buffer
C10_Witness ==
  /\ command.type = "Move"
  /\ AllDigits(trim(input))
  /\ current_line = command.line
  /\ current_line > line_len(content)
  /\ line_len(content) > 0

\* the trimmed input matches none of the grammars of the command language
Unrecognized(t) ==
  /\ t \notin {<<"q">>, <<"q", "u", "i", "t">>, <<"c">>, <<"w">>}
  /\ ~(t # <<>> /\ AllDigits(t))
  /\ ~IsSingleForm(t)
  /\ ~IsRangeForm(t)

\* C11: an input that matches none of the quit, print-family, change,
\* bare-number and write grammars is the command None: current line and
\* buffer stay as they are and the loop keeps running.
C11_UnrecognizedIsNoOp ==
  [][(status = "Running" /\ Unrecognized(trim(input')))
     => /\ command'.type = "None"
        /\ current_line' = current_line
        /\ content' = content
        /\ status' = "Running"]_vars

\* "zzz" typed on a buffer that a Change has replaced, cursor past its end
C11_Witness ==
  /\ trim(input) = <<"z", "z", "z">>
  /\ command.type = "None"
  /\ status = "Running"
  /\ content # file
  /\ current_line > line_len(content)

RECURSIVE DigitCount(_)
DigitCount(n) == IF n < 10 THEN 1 ELSE 1 + DigitCount(n \div 10)

\* the decimal numeral of n behind as many blanks as fill the width
RightAligned(n, width) == Spaces(width - Len(to_string(n))) \o to_string(n)

\* C12: for 1 <= start <= end <= line count, NPrint emits the lines that
\* Print emits, each behind its 1-based line number right-aligned to the
\* digit count of the line count at that command, and the separator.
C12_NPrint ==
  [][(/\ status = "Running"
      /\ command'.type = "NPrint"
      /\ 1 <= command'.range.start
      /\ command'.range.start <= command'.range.end
      /\ command'.range.end <= line_len(content))
     => /\ Len(out') = command'.range.end - command'.range.start + 1
        /\ \A k \in 1..Len(out') :
             /\ out'[k].text = Lines(content)[command'.range.start + k - 1]
             /\ out'[k].gutter =
                  RightAligned(command'.range.start + k - 1,
                               DigitCount(line_len(content)))
                    \o <<" ", "|", " ">>]_vars

\* the whole of a buffer of WideLines lines numbered: line 1 is padded to
\* the width of the last line's number
C12_Witness ==
  /\ command.type = "NPrint"
  /\ status = "Running"
  /\ line_len(content) = WideLines
  /\ Len(out) = WideLines
  /\ out[1] = [gutter |-> <<" ", "1", " ", "|", " ">>, text |-> FileLine(1)]
  /\ out[WideLines].gutter = to_string(WideLines) \o <<" ", "|", " ">>

\* a bare number or a print-family input with a numeral beyond usize::MAX
OverflowingInput(t) ==
  \/ t # <<>> /\ AllDigits(t) /\ Overflows(t)
  \/ IsSingleForm(t) /\ Overflows(LeadingNumber(t))
  \/ IsRangeForm(t)
       /\ (Overflows(LeadingNumber(t)) \/ Overflows(TrailingNumber(t)))

\* C13: an input whose numeral exceeds the largest line number is a parse
\* failure like any other: the command is None, current line and buffer
\* are unchanged and the loop keeps running.
C13_OverflowRecoverable ==
  [][(status = "Running" /\ OverflowingInput(trim(input')))
     => /\ command'.type = "None"
        /\ status' = "Running"
        /\ content' = content
        /\ current_line' = current_line]_vars

\* C14: Print, NPrint, Change, Write (the input w) and None leave the
\* current line as it is, so only Move changes it; Print, NPrint, Move and
\* None leave the buffer as it is.
C14_Frame ==
  [][status = "Running"
     => /\ (command'.type \in {"Print", "NPrint", "Change", "None"}
              \/ trim(input') = <<"w">>)
            => current_line' = current_line
        /\ current_line' # current_line => command'.type = "Move"
        /\ command'.type \in {"Print", "NPrint", "Move", "None"}
            => content' = content]_vars

\* a Change has shortened the buffer and the current line is where it was
C14_Witness ==
  /\ command.type = "Change"
  /\ ~moved
  /\ current_line = line_len(file)
  /\ content # file
  /\ line_len(content) < current_line

\* C15: at end of input the editor eventually exits.  read_line returns
\* nothing at end of input, and again on every later call; an iteration is
\* a function of the buffer and the current line, so the loop exits
\* eventually only if an iteration that reads end of input leaves the loop
\* or at least changes the buffer or the current line.
C15_EofTerminates ==
  [][(status = "Running" /\ input' = <<>>)
     => \/ status' # "Running"
        \/ <<content', current_line'>> # <<content, current_line>>]_vars

\* C16: right after startup the current line is the line count of the
\* loaded file, so a bare p as first command resolves to the range
\* (line count, line count).
C16_InitialCursor ==
  [][command.type = "Start"
     => /\ current_line = Len(Lines(file))
        /\ trim(input') = <<"p">>
            => command' = [type |-> "Print",
                           range |-> Range(Len(Lines(file)), Len(Lines(file)))]]_vars

\* a bare p on the untouched buffer printed its last line, not its first
C16_Witness ==
  /\ trim(input) = <<"p">>
  /\ command.type = "Print"
  /\ ~moved
  /\ content = file
  /\ line_len(content) >= 2
  /\ command.range = Range(line_len(content), line_len(content))
  /\ out = <<[gutter |-> <<>>, text |-> line(content, line_len(content) - 1)]>>

\* C17: a Print or NPrint whose range has start > end (and start >= 1) is
\* an empty iteration: nothing is emitted, no line is fetched even when the
\* range lies outside the buffer, the loop keeps running and the current
\* line and the buffer are unchanged.
C17_DegenerateRange ==
  [][(/\ status = "Running"
      /\ command'.type \in {"Print", "NPrint"}
      /\ command'.range.start >= 1
      /\ command'.range.start > command'.range.end)
     => /\ out' = <<>>
        /\ status' = "Running"
        /\ content' = content
        /\ current_line' = current_line]_vars

\* a range with start > end, both past the last line, printed nothing
C17_Witness ==
  /\ command.type \in {"Print", "NPrint"}
  /\ command.range.start > command.range.end
  /\ command.range.end > line_len(content)
  /\ line_len(content) > 0
  /\ status = "Running"
  /\ out = <<>>

\* C18: every Print or NPrint the loop executes has range.start >= 1, so
\* range.start - 1 does not underflow.
C18_StartAtLeastOne ==
  command.type \in {"Print", "NPrint"} => command.range.start >= 1

\* the grammars of parse_command that the trimmed input t matches
Grammars(t) ==
  {g \in {"quit", "print", "change", "move"} :
     CASE g = "quit" -> quit_re(t)
       [] g = "print" -> print_re(t)
       [] g = "change" -> change_re(t)
       [] g = "move" -> move_re(t)}

\* the variant of t when the grammars are tried in the opposite order
VariantLastFirst(t) ==
  IF move_re(t) THEN "Move"
  ELSE IF change_re(t) THEN "Change"
  ELSE IF print_re(t) THEN (IF t[Len(t)] = "p" THEN "Print" ELSE "NPrint")
  ELSE IF quit_re(t) THEN "Quit"
  ELSE "None"

\* C19: classification is unambiguous: no trimmed input matches two of the
\* quit, print-family, change and bare-number grammars, and the variant
\* parse_command returns is the one any order of the tests would give.
C19_Unambiguous ==
  /\ Cardinality(Grammars(trim(input))) <= 1
  /\ command.type \notin {"Start", "Panic"}
      => command.type = VariantLastFirst(trim(input))

\* "2n" classified: it is in the print family only, next to the bare
\* number "2" and the letter alone
C19_Witness ==
  /\ trim(input) = <<"2", "n">>
  /\ command.type = "NPrint"
  /\ Grammars(trim(input)) = {"print"}
  /\ Grammars(<<"2">>) = {"move"}

====
